---- MODULE Spec2Model ----
(***************************************************************************)
(* Stress-kinetics engine of src/main.py: the Adrenaline and Cortisol      *)
(* hormone models, the OperatorPhysiology state machine and the            *)
(* BattalionTaskForce aggregation and deployment simulation.               *)
(*                                                                         *)
(* Numbers.  The program computes in IEEE doubles.  Here a concentration   *)
(* is an integer number of thousandths (12.0 is 12000) and every product   *)
(* is rounded down to that grid, as a double product is rounded to the     *)
(* double grid.  A multiplier is an integer number of thousandths too.     *)
(* Durations are counted in thirds of a half-life, so that 0.5 ** (t / h)  *)
(* is a power of two times a power of the cube root of one half.           *)
(***************************************************************************)
EXTENDS Integers, Sequences, FiniteSets, TLC

VARIABLES
    personnel,      \* BattalionTaskForce.personnel: identifier -> operator
    roster,         \* the dict's insertion order (the order of iteration)
    tempo,          \* BattalionTaskForce.current_operational_tempo
    cumulative_deployment_days,
    now,            \* time.time(), in seconds
    ret,            \* the value returned by the last call
    left,           \* steps the driver and the clock may still take
    sim,            \* position of extended_deployment_simulation
    twin            \* a second run of the simulation, for comparison

vars == <<personnel, roster, tempo, cumulative_deployment_days, now, ret,
          left, sim, twin>>

(***************************************************************************)
(* Bounds of the model.                                                    *)
(***************************************************************************)
MaxSteps == 4          \* steps of the driver and the clock in Spec
MaxUnitSteps == 4      \* steps of the driver and the clock in SpecUnit
MaxDeploySteps == 15   \* steps of the driver in SpecDeploy
MaxSimSteps == 3       \* steps of the driver and contact events in SpecSim
MaxSimDays == 2        \* days argument of a simulation run
MaxInvalidSteps == 4   \* steps of the driver in SpecInvalid
MaxStressSteps == 5    \* steps of the driver in SpecStress

Milli == 10 ^ 3        \* thousandths per unit

Identifiers == {"Maverick", "Ghost"}
ElementOf(identifier) == IF identifier = "Maverick" THEN "Alpha" ELSE "Bravo"

AlertLevel == {"standard", "heightened", "critical", "combat"}
MissionType == {"recon", "direct_action", "ambush", "withdrawal", "holding"}
ThreatType == {"ambush", "sniper", "ied", "direct_fire", "indirect_fire", "pursuit"}
SoldierStatus == {"normal", "wounded", "exhausted", "panicked", "focused", "tunnel_vision"}
NoMission == "none"

(***************************************************************************)
(* Arithmetic on the grid.                                                 *)
(***************************************************************************)
\* x * f / 1000 rounded down, computed without leaving 32 bits
MulMilli(x, f) == (x \div Milli) * f + ((x % Milli) * f) \div Milli

\* round(x, 1): to the nearest tenth, a tie to the even tenth
Round1(x) ==
    LET q == x \div 100
        r == x % 100
    IN  IF r < 50 THEN q * 100
        ELSE IF r > 50 THEN (q + 1) * 100
        ELSE IF q % 2 = 0 THEN q * 100 ELSE (q + 1) * 100

\* round(x, 2) of a number of thousandths
Round2(x) ==
    LET q == x \div 10
        r == x % 10
    IN  IF r < 5 THEN q * 10
        ELSE IF r > 5 THEN (q + 1) * 10
        ELSE IF q % 2 = 0 THEN q * 10 ELSE (q + 1) * 10

Max(a, b) == IF a >= b THEN a ELSE b

\* 0.5 ** n for a whole number n of half-lives; the double underflows to 0.0
\* beyond 2 ** -1074, the grid here below one thousandth
HalfPower(n) == IF n >= 10 THEN 0 ELSE Milli \div (2 ^ n)

\* 0.5 ** (r / 3) for r in 0..2
CubeRootPower(r) == IF r = 0 THEN 1000 ELSE IF r = 1 THEN 794 ELSE 630

\* 2 ** (r / 3) for r in 0..2
CubeRootGrowth(r) == IF r = 0 THEN 1000 ELSE IF r = 1 THEN 1260 ELSE 1587

\* 0.5 ** (thirds / 3), in thousandths; a negative exponent grows
DecayFactor(thirds) ==
    IF thirds >= 0
    THEN MulMilli(HalfPower(thirds \div 3), CubeRootPower(thirds % 3))
    ELSE (2 ^ ((0 - thirds) \div 3)) * CubeRootGrowth((0 - thirds) % 3)

(***************************************************************************)
(* class Adrenaline                                                        *)
(***************************************************************************)
AdrenalineHalfLifeSeconds == 120
FatigueOnsetSeconds == 180

NewAdrenaline ==
    [concentration |-> 1000, baseline |-> 1000,
     peak_response |-> FALSE, peak_timestamp |-> 0]

\* Adrenaline.metabolize(seconds_elapsed), seconds_elapsed = thirds * 120 / 3
AdrenalineMetabolize(a, thirds) ==
    LET c == MulMilli(a.concentration, DecayFactor(thirds))
    IN  [a EXCEPT !.concentration = c,
                  !.peak_response = IF c < MulMilli(a.baseline, 1100)
                                    THEN FALSE ELSE @]

ThreatMultiplier(threat) ==
    CASE threat = "ambush" -> 7500
      [] threat = "sniper" -> 6800
      [] threat = "ied" -> 8200
      [] threat = "direct_fire" -> 5900
      [] threat = "indirect_fire" -> 4700
      [] threat = "pursuit" -> 3900
      [] OTHER -> 3000

\* the state change of Adrenaline.acute_stress_response(threat) at time t
AcuteStressResponse(a, threat, t) ==
    [a EXCEPT !.concentration = MulMilli(@, ThreatMultiplier(threat)),
              !.peak_response = TRUE,
              !.peak_timestamp = t]

\* situational_awareness=max(0.25, 0.95 - concentration * 0.12)
SituationalAwareness(a) == Max(250, 950 - MulMilli(a.concentration, 120))

\* Adrenaline.performance_modifier() read at time t, in thousandths
PerformanceModifier(a, t) ==
    LET duration == t - a.peak_timestamp
    IN  IF ~a.peak_response THEN 1000
        ELSE IF duration > FatigueOnsetSeconds
             THEN Max(400, 1000 - (duration - FatigueOnsetSeconds) * 8)
             ELSE 1000 + MulMilli(a.concentration, 80)

(***************************************************************************)
(* class Cortisol                                                          *)
(***************************************************************************)
ChronicDays == 7       \* deployment_days > 7
HalfHoursPerDay == 48

NewCortisol ==
    [concentration |-> 12000, baseline |-> 12000, deployment_days |-> 0,
     recovery_deficit |-> 0, chronic_adaptation |-> FALSE]

\* a metabolize that forgets the baseline floor
CortisolMetabolizeNoFloor(c, thirds) ==
    [c EXCEPT !.concentration = MulMilli(@, DecayFactor(thirds))]

\* Cortisol.metabolize(hours_elapsed), hours_elapsed = thirds * 1.5 / 3
CortisolMetabolize(c, thirds) ==
    LET d == MulMilli(c.concentration, DecayFactor(thirds))
    IN  [c EXCEPT !.concentration = IF d < c.baseline THEN c.baseline ELSE d]

MissionFactor(mission) ==
    CASE mission = "recon" -> 1150
      [] mission = "direct_action" -> 1650
      [] mission = "ambush" -> 1900
      [] mission = "withdrawal" -> 1550
      [] mission = "holding" -> 1350
      [] OTHER -> 1200

\* by how much the baseline is raised once deployment_days > 7
RatchetBaseline(baseline) == MulMilli(baseline, 1150)

\* a stress accumulation that raises the baseline only on the call that
\* first takes deployment_days past 7
StressAccumulationOnce(c, halfHours, mission) ==
    LET days == c.deployment_days + halfHours
        over == days > ChronicDays * HalfHoursPerDay
    IN  [c EXCEPT !.concentration = @ + (halfHours * MissionFactor(mission) * 9) \div 10,
                  !.deployment_days = days,
                  !.baseline = IF over /\ ~c.chronic_adaptation
                               THEN RatchetBaseline(@) ELSE @,
                  !.chronic_adaptation = IF over THEN TRUE ELSE @]

\* Cortisol.stress_accumulation(duration_hours, mission); the duration is
\* given in half hours, and deployment_days is kept in half hours too.
\* duration_hours * factor * 1.8 = halfHours * factor * 0.9
StressAccumulation(c, halfHours, mission) ==
    LET days == c.deployment_days + halfHours
        over == days > ChronicDays * HalfHoursPerDay
    IN  [c EXCEPT !.concentration = @ + (halfHours * MissionFactor(mission) * 9) \div 10,
                  !.deployment_days = days,
                  !.baseline = IF over THEN RatchetBaseline(@) ELSE @,
                  !.chronic_adaptation = IF over THEN TRUE ELSE @]

\* Cortisol.circadian_modulation(hour, active_duty); recovery_deficit in tenths
CircadianModulation(c, hour, active_duty) ==
    IF active_duty
    THEN [c EXCEPT !.concentration = MulMilli(@, 1250),
                   !.recovery_deficit = @ + 4]
    ELSE IF 5 <= hour /\ hour <= 9
         THEN [c EXCEPT !.concentration = MulMilli(@, 1350)]
         ELSE IF 23 <= hour \/ hour <= 4
              THEN [c EXCEPT !.concentration =
                        MulMilli(@, IF c.chronic_adaptation THEN 1150 ELSE 750)]
              ELSE c

(***************************************************************************)
(* class OperatorPhysiology                                                *)
(***************************************************************************)
CortisolHalfLifeHalfHours == 3     \* half_life_hours = 1.5
PanicCasualties == 2               \* element_casualties > 2

NewOperator(identifier, element) ==
    [identifier |-> identifier, element |-> element,
     adrenaline |-> NewAdrenaline, cortisol |-> NewCortisol,
     posture |-> "standard", current_mission |-> NoMission,
     state |-> "normal", event_log |-> <<>>, threat_encounters |-> <<>>,
     element_casualties |-> 0, ammunition_expended |-> 0]

\* OperatorPhysiology.operational_briefing(mission, duration)
OperationalBriefing(op, mission) ==
    [op EXCEPT !.current_mission = mission,
               !.posture = "heightened",
               !.adrenaline.concentration = MulMilli(@, 1400),
               !.cortisol.concentration = MulMilli(@, 1150)]

\* a status rule under which the other threat kinds restore focus
EngagementStateRecovers(state, threat, panics) ==
    IF threat = "ambush" THEN (IF panics THEN "panicked" ELSE "focused")
    ELSE IF threat = "ied" THEN "tunnel_vision"
    ELSE "focused"

\* a status rule under which an ambush can only add panic
EngagementStatePanicOnly(state, threat, panics) ==
    IF threat = "ambush" THEN (IF panics THEN "panicked" ELSE state)
    ELSE IF threat = "sniper" THEN "focused"
    ELSE IF threat = "ied" THEN "tunnel_vision"
    ELSE state

\* the status rule of threat_engagement; panics is random.random() < 0.25
EngagementState(state, threat, panics) ==
    IF threat = "ambush" THEN (IF panics THEN "panicked" ELSE "focused")
    ELSE IF threat = "sniper" THEN "focused"
    ELSE IF threat = "ied" THEN "tunnel_vision"
    ELSE state

\* OperatorPhysiology.threat_engagement(threat, severity) at time t; rounds
\* is random.randint(45, 450)
ThreatEngagement(op, threat, severity, rounds, panics, t) ==
    LET a == AcuteStressResponse(op.adrenaline, threat, t)
        c == StressAccumulation(op.cortisol, 1,
                 IF op.current_mission = NoMission THEN "direct_action"
                 ELSE op.current_mission)
        s == EngagementState(op.state, threat, panics)
        ammo == op.ammunition_expended + rounds
        engagement_record ==
            [timestamp |-> t, threat_classification |-> threat,
             severity_index |-> severity,
             adrenaline_response |-> Round1(a.concentration),
             cortisol_concentration |-> Round1(c.concentration),
             operator_state |-> s, rounds_expended |-> ammo,
             awareness_index |-> SituationalAwareness(a)]
    IN  [op EXCEPT !.posture = "combat",
                   !.threat_encounters = Append(@, threat),
                   !.ammunition_expended = ammo,
                   !.adrenaline = a,
                   !.cortisol = c,
                   !.state = s,
                   !.event_log = Append(@, engagement_record)]

\* the status rule with the comparison off by one (>= 2)
CasualtyStateAtTwo(element_casualties) ==
    IF element_casualties >= PanicCasualties THEN "panicked" ELSE "focused"

\* the status rule of element_casualty
CasualtyState(element_casualties) ==
    IF element_casualties > PanicCasualties THEN "panicked" ELSE "focused"

\* a casualty that also puts the operator in combat posture
ElementCasualtyCombat(op) ==
    [op EXCEPT !.element_casualties = @ + 1,
               !.posture = "combat",
               !.adrenaline.concentration = MulMilli(@, 2300),
               !.cortisol.concentration = MulMilli(@, 1700),
               !.state = CasualtyState(op.element_casualties + 1)]

\* OperatorPhysiology.element_casualty(severity)
ElementCasualty(op) ==
    [op EXCEPT !.element_casualties = @ + 1,
               !.adrenaline.concentration = MulMilli(@, 2300),
               !.cortisol.concentration = MulMilli(@, 1700),
               !.state = CasualtyState(op.element_casualties + 1)]

\* "immediate_response" of the report of element_casualty
ImmediateResponse(op) ==
    IF op.state # "panicked" THEN "suppressive_fire" ELSE "cover"

\* a withdrawal that starts the log over with its own record
TacticalRetrogradeOverwrites(op, pursued, t) ==
    [op EXCEPT !.posture = "critical",
               !.current_mission = "withdrawal",
               !.event_log = <<[maneuver |-> "tactical_retrograde",
                                pursuit_ongoing |-> pursued]>>]

\* OperatorPhysiology.tactical_retrograde(pursued) at time t
TacticalRetrograde(op, pursued, t) ==
    LET a == IF pursued
             THEN [op.adrenaline EXCEPT !.concentration = MulMilli(@, 1900)]
             ELSE op.adrenaline
        c == IF pursued
             THEN [op.cortisol EXCEPT !.concentration = MulMilli(@, 1250)]
             ELSE op.cortisol
        assessment ==
            [maneuver |-> "tactical_retrograde", pursuit_ongoing |-> pursued,
             adrenaline_state |-> Round1(a.concentration),
             cortisol_state |-> Round1(c.concentration),
             cover_utilization |-> c.concentration > 18000,
             communication_discipline |-> c.concentration < 22000,
             effectiveness_coefficient |-> PerformanceModifier(a, t)]
    IN  [op EXCEPT !.posture = "critical",
                   !.current_mission = "withdrawal",
                   !.adrenaline = a,
                   !.cortisol = c,
                   !.event_log = Append(@, assessment)]

\* a debrief that also returns the cortisol model to its initial baseline
ExtractionDebriefResets(op, recovery_period) ==
    [op EXCEPT !.posture = "standard",
               !.current_mission = NoMission,
               !.adrenaline = AdrenalineMetabolize(@,
                    (recovery_period * 3600 * 3) \div AdrenalineHalfLifeSeconds),
               !.cortisol = [CortisolMetabolize(@,
                    (recovery_period * 2 * 3) \div CortisolHalfLifeHalfHours)
                    EXCEPT !.baseline = NewCortisol.baseline,
                           !.chronic_adaptation = FALSE]]

\* OperatorPhysiology.extraction_debrief(recovery_period), in whole hours
ExtractionDebrief(op, recovery_period) ==
    [op EXCEPT !.posture = "standard",
               !.current_mission = NoMission,
               !.adrenaline = AdrenalineMetabolize(@,
                    (recovery_period * 3600 * 3) \div AdrenalineHalfLifeSeconds),
               !.cortisol = CortisolMetabolize(@,
                    (recovery_period * 2 * 3) \div CortisolHalfLifeHalfHours)]

\* OperatorPhysiology.unit_cohesion_analysis(team_roster): a report, no
\* state change
UnitCohesionAnalysis(op) ==
    LET mean_cortisol == op.cortisol.concentration
        cohesion_index ==
            1000 - MulMilli(mean_cortisol - op.cortisol.baseline, 18)
    IN  [mean_cortisol |-> Round1(mean_cortisol),
         cohesion_index |-> Max(350, Round2(cohesion_index)),
         communication_efficacy |->
             IF op.cortisol.chronic_adaptation THEN "degraded"
             ELSE IF cohesion_index < 720 THEN "reduced" ELSE "nominal",
         blue_on_blue_risk |->
             IF mean_cortisol > 28000 THEN "elevated" ELSE "baseline"]

(***************************************************************************)
(* class BattalionTaskForce                                                *)
(***************************************************************************)
EffectiveThreshold == 580          \* performance_modifier() > 0.58
ReliefCutoff == 28000              \* unit_assessment["mean_cortisol"] > 28
UrgentCutoff == 24000              \* mean_cortisol > 24
RecoveryAllocation == 72           \* recovery_allocation = 72

RECURSIVE SumOver(_, _, _)
\* sum(f(op) for op in self.personnel.values()), f the hormone named by which
SumOver(pers, ids, which) ==
    IF ids = {} THEN 0
    ELSE LET i == CHOOSE j \in ids : TRUE
         IN  (IF which = "adrenaline" THEN pers[i].adrenaline.concentration
              ELSE pers[i].cortisol.concentration)
             + SumOver(pers, ids \ {i}, which)

\* a mean that reports the resting cortisol level for an empty unit
MeanConcentrationResting(total, n) ==
    IF n > 0 THEN total \div n ELSE NewCortisol.baseline

\* total / len(self.personnel) if self.personnel else 0
MeanConcentration(total, n) == IF n > 0 THEN total \div n ELSE 0

\* the operators counted as effective by assess_unit_readiness at time t
EffectivePersonnel(pers, t) ==
    {i \in DOMAIN pers :
        /\ pers[i].state # "panicked"
        /\ PerformanceModifier(pers[i].adrenaline, t) > EffectiveThreshold}

\* BattalionTaskForce.assess_unit_readiness() at time t
AssessUnitReadiness(pers, tmp, days, t) ==
    LET n == Cardinality(DOMAIN pers)
        mean_adrenaline ==
            MeanConcentration(SumOver(pers, DOMAIN pers, "adrenaline"), n)
        mean_cortisol ==
            MeanConcentration(SumOver(pers, DOMAIN pers, "cortisol"), n)
        cohesion_index ==
            IF mean_cortisol > 10000
            THEN 1000 - MulMilli(mean_cortisol - 10000, 18) ELSE 1000
    IN  [assigned_personnel |-> n,
         mean_adrenaline |-> Round1(mean_adrenaline),
         mean_cortisol |-> Round1(mean_cortisol),
         effective_personnel |-> Cardinality(EffectivePersonnel(pers, t)),
         cohesion_index |-> Max(250, Round2(cohesion_index)),
         operational_tempo |-> tmp,
         deployment_duration |-> days,
         relief_priority |-> IF mean_cortisol > UrgentCutoff
                             THEN "urgent" ELSE "routine"]

\* the unrounded mean of the cortisol concentrations
MeanCortisol(pers) ==
    IF DOMAIN pers = {} THEN 0
    ELSE SumOver(pers, DOMAIN pers, "cortisol") \div Cardinality(DOMAIN pers)

\* a recommendation with its cutoff below that of relief_priority
CommandRecommendationEager(unit_assessment) ==
    IF unit_assessment.mean_cortisol > 20 * Milli
    THEN "immediate_relief" ELSE "operational_standby"

\* "command_recommendation" of unit_extraction
CommandRecommendation(unit_assessment) ==
    IF unit_assessment.mean_cortisol > ReliefCutoff
    THEN "immediate_relief" ELSE "operational_standby"

\* for identifier, operator in self.personnel.items():
\*     operator.threat_engagement(threat, severity)
\* the k-th operator visited takes the k-th pair of random draws
EngageAll(pers, order, threat, severity, draws, t) ==
    [i \in DOMAIN pers |->
        LET k == CHOOSE j \in 1..Len(order) : order[j] = i
        IN  ThreatEngagement(pers[i], threat, severity,
                             draws[k].rounds, draws[k].panics, t)]

\* for ...: operator.extraction_debrief(recovery_allocation)
DebriefAll(pers) ==
    [i \in DOMAIN pers |-> ExtractionDebrief(pers[i], RecoveryAllocation)]

\* for ...: operator.cortisol.metabolize(4)
MetabolizeAll(pers) ==
    [i \in DOMAIN pers |->
        [pers[i] EXCEPT !.cortisol = CortisolMetabolize(@, 8)]]

\* night_operations_cycle(hour); watch[k] is random.random() < 0.3 of the
\* k-th operator visited
NightCycleAll(pers, order, hour, watch) ==
    [i \in DOMAIN pers |->
        LET k == CHOOSE j \in 1..Len(order) : order[j] = i
        IN  [pers[i] EXCEPT !.cortisol = CircadianModulation(@, hour, watch[k])]]

\* one pass of "for hour in range(24)" of extended_deployment_simulation
SimulationHour(pers, order, hour, contact, threat, severity, draws, t) ==
    LET p == IF hour % 4 = 0 THEN MetabolizeAll(pers) ELSE pers
    IN  IF 6 <= hour /\ hour <= 19 /\ contact
        THEN EngageAll(p, order, threat, severity, draws, t)
        ELSE p

(***************************************************************************)
(* Inputs of the calls.                                                    *)
(***************************************************************************)
BriefMissions == {"recon", "direct_action"}
Severities == {90}                         \* hundredths: 0.9
AmmoDraws == {45, 450}                     \* random.randint(45, 450)
RecoveryPeriods == {0, 72}                 \* hours
CortisolThirds == {0, 3, 8}                \* 0 h, 1.5 h, 4 h
AdrenalineThirds == {0, 3}                 \* 0 s, 120 s
StressHalfHours == {1, 384}                \* 0.5 h, 192 h
CircadianHours == {2, 7, 12}
ClockSteps == {60, 240}                    \* seconds between two calls
LongDeployment == 2 * 192                  \* half hours: 192 h

NegativeSeverities == {-50}                \* hundredths: -0.5
NegativeThirds == {-3}                     \* one half-life back
NegativeHalfHours == {-48}                 \* -24 h
NegativeDurations == {-24}                 \* projected duration, hours
DeploymentHalfHours == {1, 168, 336}       \* 0.5 h, 3.5 days, 7 days

Draws == [rounds : AmmoDraws, panics : BOOLEAN]
DrawsFor(n) == [1..n -> Draws]
SimDrawsFor(n) == [1..n -> [rounds : {45}, panics : BOOLEAN]]
StartDelays == {0, 240}                    \* seconds between two runs
WatchFor(n) == [1..n -> BOOLEAN]

Idle == [pc |-> "idle", days |-> 0, day |-> 0, hour |-> 0, before |-> 0,
         daily_assessments |-> <<>>]
NoTwin == [active |-> FALSE]

\* the task force after BattalionTaskForce.__init__
Fresh ==
    /\ personnel = <<>>
    /\ roster = <<>>
    /\ tempo = "standard"
    /\ cumulative_deployment_days = 0
    /\ now = 0
    /\ ret = [call |-> "__init__"]
    /\ sim = Idle
    /\ twin = NoTwin

Attached == DOMAIN personnel

\* a step of the driver: a call made while no call is running
DriverStep ==
    /\ sim.pc = "idle"
    /\ left > 0
    /\ left' = left - 1

\* a call on operator i that leaves the task force's own fields alone
OperatorCall(i, op, result) ==
    /\ DriverStep
    /\ personnel' = [personnel EXCEPT ![i] = op]
    /\ ret' = result
    /\ UNCHANGED <<roster, tempo, cumulative_deployment_days, now, sim, twin>>

\* time.time() advances between two calls
Tick(seconds) ==
    /\ DriverStep
    /\ now' = now + seconds
    /\ UNCHANGED <<personnel, roster, tempo, cumulative_deployment_days, ret,
                   sim, twin>>

\* BattalionTaskForce.attach_operator(identifier, element)
DoAttachOperator(identifier) ==
    /\ DriverStep
    /\ personnel' = [i \in Attached \cup {identifier} |->
                        IF i = identifier
                        THEN NewOperator(identifier, ElementOf(identifier))
                        ELSE personnel[i]]
    /\ roster' = IF identifier \in Attached THEN roster
                 ELSE Append(roster, identifier)
    /\ ret' = [call |-> "attach_operator", operator |-> identifier]
    /\ UNCHANGED <<tempo, cumulative_deployment_days, now, sim, twin>>

DoOperationalBriefing(i, mission, duration) ==
    /\ i \in Attached
    /\ LET op == OperationalBriefing(personnel[i], mission)
       IN  OperatorCall(i, op,
               [call |-> "operational_briefing", operator |-> i,
                mission_type |-> mission, projected_duration |-> duration,
                readiness_state |-> op.posture])

DoThreatEngagement(i, threat, severity, rounds, panics) ==
    /\ i \in Attached
    /\ LET op == ThreatEngagement(personnel[i], threat, severity, rounds,
                                  panics, now)
       IN  OperatorCall(i, op,
               [call |-> "threat_engagement", operator |-> i,
                threat |-> threat,
                value |-> op.event_log[Len(op.event_log)]])

DoElementCasualty(i, severity) ==
    /\ i \in Attached
    /\ LET op == ElementCasualty(personnel[i])
       IN  OperatorCall(i, op,
               [call |-> "element_casualty", operator |-> i,
                cumulative_casualties |-> op.element_casualties,
                psychological_state |-> op.state,
                combat_effectiveness |-> PerformanceModifier(op.adrenaline, now),
                immediate_response |-> ImmediateResponse(op)])

DoTacticalRetrograde(i, pursued) ==
    /\ i \in Attached
    /\ LET op == TacticalRetrograde(personnel[i], pursued, now)
       IN  OperatorCall(i, op,
               [call |-> "tactical_retrograde", operator |-> i,
                value |-> op.event_log[Len(op.event_log)]])

DoExtractionDebrief(i, recovery_period) ==
    /\ i \in Attached
    /\ OperatorCall(i, ExtractionDebrief(personnel[i], recovery_period),
           [call |-> "extraction_debrief", operator |-> i,
            recovery_allocated |-> recovery_period])

\* operator.unit_cohesion_analysis(team_roster)
DoUnitCohesionAnalysis(i) ==
    /\ i \in Attached
    /\ OperatorCall(i, personnel[i],
           [call |-> "unit_cohesion_analysis", operator |-> i,
            value |-> UnitCohesionAnalysis(personnel[i])])

\* operator.cortisol.metabolize(hours_elapsed)
DoCortisolMetabolize(i, thirds) ==
    /\ i \in Attached
    /\ OperatorCall(i,
           [personnel[i] EXCEPT !.cortisol = CortisolMetabolize(@, thirds)],
           [call |-> "cortisol.metabolize", operator |-> i, thirds |-> thirds])

\* operator.adrenaline.metabolize(seconds_elapsed)
DoAdrenalineMetabolize(i, thirds) ==
    /\ i \in Attached
    /\ OperatorCall(i,
           [personnel[i] EXCEPT !.adrenaline = AdrenalineMetabolize(@, thirds)],
           [call |-> "adrenaline.metabolize", operator |-> i, thirds |-> thirds])

\* operator.cortisol.stress_accumulation(duration_hours, mission)
DoStressAccumulation(i, halfHours, mission) ==
    /\ i \in Attached
    /\ OperatorCall(i,
           [personnel[i] EXCEPT
               !.cortisol = StressAccumulation(@, halfHours, mission)],
           [call |-> "stress_accumulation", operator |-> i,
            halfHours |-> halfHours])

\* operator.cortisol.circadian_modulation(hour, active_duty)
DoCircadianModulation(i, hour, active_duty) ==
    /\ i \in Attached
    /\ OperatorCall(i,
           [personnel[i] EXCEPT
               !.cortisol = CircadianModulation(@, hour, active_duty)],
           [call |-> "circadian_modulation", operator |-> i, hour |-> hour,
            active_duty |-> active_duty])

\* BattalionTaskForce.element_contact(grid_reference, threat_intensity)
DoElementContact(threat_intensity, draws) ==
    /\ DriverStep
    /\ LET pers == EngageAll(personnel, roster, "ambush", threat_intensity,
                             draws, now)
           unit_status == AssessUnitReadiness(pers, "combat",
                              cumulative_deployment_days, now)
       IN  /\ personnel' = pers
           /\ ret' = [call |-> "element_contact",
                      threat_magnitude |-> threat_intensity,
                      draws |-> draws,
                      unit_status |-> unit_status,
                      unit_cohesion_index |-> unit_status.cohesion_index,
                      personnel_casualties |->
                          Cardinality({i \in DOMAIN pers :
                                          pers[i].element_casualties > 0}),
                      combat_effective_personnel |->
                          unit_status.effective_personnel]
    /\ tempo' = "combat"
    /\ UNCHANGED <<roster, cumulative_deployment_days, now, sim, twin>>

\* BattalionTaskForce.assess_unit_readiness()
DoAssessUnitReadiness ==
    /\ DriverStep
    /\ ret' = [call |-> "assess_unit_readiness",
               value |-> AssessUnitReadiness(personnel, tempo,
                             cumulative_deployment_days, now)]
    /\ UNCHANGED <<personnel, roster, tempo, cumulative_deployment_days, now,
                   sim, twin>>

\* BattalionTaskForce.night_operations_cycle(hour)
DoNightOperationsCycle(hour, watch) ==
    /\ DriverStep
    /\ personnel' = NightCycleAll(personnel, roster, hour, watch)
    /\ ret' = [call |-> "night_operations_cycle", hour |-> hour]
    /\ UNCHANGED <<roster, tempo, cumulative_deployment_days, now, sim, twin>>

\* an extraction that also returns the unit tempo to standard
DoUnitExtractionStandsDown ==
    /\ DriverStep
    /\ LET pers == DebriefAll(personnel)
           unit_assessment == AssessUnitReadiness(pers, "standard",
                                  cumulative_deployment_days, now)
       IN  /\ personnel' = pers
           /\ ret' = [call |-> "unit_extraction",
                      unit_readiness |-> unit_assessment,
                      command_recommendation |->
                          CommandRecommendation(unit_assessment)]
    /\ tempo' = "standard"
    /\ UNCHANGED <<roster, cumulative_deployment_days, now, sim, twin>>

\* BattalionTaskForce.unit_extraction(extraction_zone)
DoUnitExtraction ==
    /\ DriverStep
    /\ LET pers == DebriefAll(personnel)
           unit_assessment == AssessUnitReadiness(pers, tempo,
                                  cumulative_deployment_days, now)
       IN  /\ personnel' = pers
           /\ ret' = [call |-> "unit_extraction",
                      unit_readiness |-> unit_assessment,
                      command_recommendation |->
                          CommandRecommendation(unit_assessment)]
    /\ UNCHANGED <<roster, tempo, cumulative_deployment_days, now, sim, twin>>

\* self.cumulative_deployment_days += 1, forgotten
CumulativeAfterDayStuck(days) == days

\* self.cumulative_deployment_days += 1
CumulativeAfterDay(days) == days + 1

\* BattalionTaskForce.extended_deployment_simulation(days): the call, up to
\* the first pass of the loop over the hours.  A second run starts from a
\* copy of the task force, delay seconds later on the wall clock.
DoExtendedDeploymentSimulation(days, delay) ==
    /\ DriverStep
    /\ IF days = 0
       THEN /\ ret' = [call |-> "extended_deployment_simulation",
                       returned |-> TRUE, days |-> days,
                       before |-> cumulative_deployment_days, value |-> <<>>]
            /\ twin' = [active |-> TRUE, personnel |-> personnel,
                        now |-> now + delay,
                        cumulative_deployment_days |-> cumulative_deployment_days,
                        daily_assessments |-> <<>>]
            /\ UNCHANGED <<sim, cumulative_deployment_days>>
       ELSE /\ ret' = [call |-> "extended_deployment_simulation",
                       returned |-> FALSE]
            /\ sim' = [pc |-> "running", days |-> days, day |-> 1, hour |-> 0,
                       before |-> cumulative_deployment_days,
                       daily_assessments |-> <<>>]
            /\ cumulative_deployment_days' =
                   CumulativeAfterDay(cumulative_deployment_days)
            /\ twin' = [active |-> TRUE, personnel |-> personnel,
                        now |-> now + delay,
                        cumulative_deployment_days |->
                            CumulativeAfterDay(cumulative_deployment_days),
                        daily_assessments |-> <<>>]
    /\ UNCHANGED <<personnel, roster, tempo, now>>

\* one pass of the loop over the hours, with the end of the day after hour
\* 23 and the return after the last day; contact is random.random() < 0.15,
\* threat random.choice(list(ThreatType)), severity random.uniform(0.25, 0.95).
\* The second run takes the same draws at its own wall-clock time.
SimulationStep(contact, threat, severity, draws) ==
    /\ sim.pc = "running"
    /\ contact => 6 <= sim.hour /\ sim.hour <= 19 /\ left > 0
    /\ left' = IF contact THEN left - 1 ELSE left
    /\ LET pers == SimulationHour(personnel, roster, sim.hour, contact,
                                  threat, severity, draws, now)
           other == SimulationHour(twin.personnel, roster, sim.hour, contact,
                                   threat, severity, draws, twin.now)
           daily_assessment ==
               AssessUnitReadiness(pers, tempo, cumulative_deployment_days, now)
           other_assessment ==
               AssessUnitReadiness(other, tempo,
                                   twin.cumulative_deployment_days, twin.now)
           assessments == Append(sim.daily_assessments, daily_assessment)
       IN  /\ personnel' = pers
           /\ IF sim.hour < 23
              THEN /\ sim' = [sim EXCEPT !.hour = @ + 1]
                   /\ twin' = [twin EXCEPT !.personnel = other]
                   /\ UNCHANGED <<ret, cumulative_deployment_days>>
              ELSE IF sim.day < sim.days
              THEN /\ sim' = [sim EXCEPT !.hour = 0, !.day = @ + 1,
                                         !.daily_assessments = assessments]
                   /\ twin' = [twin EXCEPT
                          !.personnel = other,
                          !.daily_assessments = Append(@, other_assessment),
                          !.cumulative_deployment_days = CumulativeAfterDay(@)]
                   /\ cumulative_deployment_days' =
                          CumulativeAfterDay(cumulative_deployment_days)
                   /\ UNCHANGED ret
              ELSE /\ sim' = Idle
                   /\ twin' = [twin EXCEPT
                          !.personnel = other,
                          !.daily_assessments = Append(@, other_assessment)]
                   /\ ret' = [call |-> "extended_deployment_simulation",
                              returned |-> TRUE, days |-> sim.days,
                              before |-> sim.before, value |-> assessments]
                   /\ UNCHANGED cumulative_deployment_days
    /\ UNCHANGED <<roster, tempo, now>>

(***************************************************************************)
(* Spec: one operator, and a driver that calls its methods and those of    *)
(* its two hormone models in any order, MaxSteps steps in all.             *)
(***************************************************************************)
Init == Fresh /\ left = MaxSteps

Next ==
    \/ DoAttachOperator("Maverick")
    \/ \E i \in Attached, mission \in BriefMissions :
           DoOperationalBriefing(i, mission, 24)
    \/ \E i \in Attached, threat \in ThreatType, severity \in Severities,
          panics \in BOOLEAN :
           DoThreatEngagement(i, threat, severity, 45, panics)
    \/ \E i \in Attached, severity \in Severities :
           DoElementCasualty(i, severity)
    \/ \E i \in Attached, pursued \in BOOLEAN : DoTacticalRetrograde(i, pursued)
    \/ \E i \in Attached, recovery_period \in RecoveryPeriods :
           DoExtractionDebrief(i, recovery_period)
    \/ \E i \in Attached, thirds \in CortisolThirds :
           DoCortisolMetabolize(i, thirds)
    \/ \E i \in Attached, thirds \in AdrenalineThirds :
           DoAdrenalineMetabolize(i, thirds)
    \/ \E i \in Attached, halfHours \in StressHalfHours,
          mission \in BriefMissions :
           DoStressAccumulation(i, halfHours, mission)
    \/ \E i \in Attached, hour \in CircadianHours, active_duty \in BOOLEAN :
           DoCircadianModulation(i, hour, active_duty)
    \/ \E i \in Attached : DoUnitCohesionAnalysis(i)
    \/ DoAssessUnitReadiness
    \/ \E seconds \in ClockSteps : Tick(seconds)

Spec == Init /\ [][Next]_vars

(***************************************************************************)
(* SpecUnit: a task force of up to two operators, and a driver that calls  *)
(* the task force's methods, MaxUnitSteps steps in all.                    *)
(***************************************************************************)
InitUnit == Fresh /\ left = MaxUnitSteps

NextUnit ==
    \/ \E identifier \in Identifiers : DoAttachOperator(identifier)
    \/ \E i \in Attached : DoOperationalBriefing(i, "recon", 24)
    \/ \E i \in Attached, severity \in Severities :
           DoElementCasualty(i, severity)
    \/ \E severity \in Severities, draws \in DrawsFor(Len(roster)) :
           DoElementContact(severity, draws)
    \/ DoAssessUnitReadiness
    \/ \E watch \in WatchFor(Len(roster)) : DoNightOperationsCycle(2, watch)
    \/ DoUnitExtraction
    \/ \E i \in Attached : DoThreatEngagement(i, "sniper", 90, 45, FALSE)
    \/ \E i \in Attached, pursued \in BOOLEAN : DoTacticalRetrograde(i, pursued)
    \/ \E seconds \in ClockSteps : Tick(seconds)

SpecUnit == InitUnit /\ [][NextUnit]_vars

(***************************************************************************)
(* SpecDeploy: a long deployment.  The driver attaches operators, has them *)
(* accumulate stress over 192 hours at a time, and extracts the unit.      *)
(***************************************************************************)
InitDeploy == Fresh /\ left = MaxDeploySteps

NextDeploy ==
    \/ \E identifier \in Identifiers : DoAttachOperator(identifier)
    \/ \E i \in Attached :
           DoStressAccumulation(i, LongDeployment, "direct_action")
    \/ DoUnitExtraction

SpecDeploy == InitDeploy /\ [][NextDeploy]_vars

(***************************************************************************)
(* SpecSim: a task force of one operator, contacts and clock steps before  *)
(* a run, and runs of the deployment simulation; driver steps and contact  *)
(* events drawn during a run are MaxSimSteps in all.                       *)
(***************************************************************************)
InitSim == Fresh /\ left = MaxSimSteps

NextSim ==
    \/ DoAttachOperator("Maverick")
    \/ \E severity \in Severities, draws \in SimDrawsFor(Len(roster)) :
           DoElementContact(severity, draws)
    \/ \E seconds \in ClockSteps : Tick(seconds)
    \/ \E days \in 0..MaxSimDays, delay \in StartDelays :
           DoExtendedDeploymentSimulation(days, delay)
    \/ DoAssessUnitReadiness
    \/ DoUnitExtraction
    \/ SimulationStep(FALSE, "ambush", 0, <<>>)
    \/ \E threat \in ThreatType, severity \in Severities,
          draws \in SimDrawsFor(Len(roster)) :
           SimulationStep(TRUE, threat, severity, draws)

SpecSim == InitSim /\ [][NextSim]_vars

(***************************************************************************)
(* SpecInvalid: one operator, and a driver that passes a negative duration *)
(* or a negative intensity to every call that takes one.                   *)
(***************************************************************************)
InitInvalid == Fresh /\ left = MaxInvalidSteps

NextInvalid ==
    \/ DoAttachOperator("Maverick")
    \/ \E i \in Attached, mission \in BriefMissions,
          duration \in NegativeDurations :
           DoOperationalBriefing(i, mission, duration)
    \/ \E i \in Attached, threat \in {"ambush", "sniper"},
          severity \in NegativeSeverities, panics \in BOOLEAN :
           DoThreatEngagement(i, threat, severity, 45, panics)
    \/ \E i \in Attached, thirds \in NegativeThirds :
           DoCortisolMetabolize(i, thirds)
    \/ \E i \in Attached, thirds \in NegativeThirds :
           DoAdrenalineMetabolize(i, thirds)
    \/ \E i \in Attached, halfHours \in NegativeHalfHours,
          mission \in BriefMissions :
           DoStressAccumulation(i, halfHours, mission)
    \/ \E severity \in NegativeSeverities, draws \in SimDrawsFor(Len(roster)) :
           DoElementContact(severity, draws)

SpecInvalid == InitInvalid /\ [][NextInvalid]_vars

(***************************************************************************)
(* SpecStress: one operator whose cortisol model accumulates stress over   *)
(* half an hour, 3.5 days or 7 days at a time.                             *)
(***************************************************************************)
InitStress == Fresh /\ left = MaxStressSteps

NextStress ==
    \/ DoAttachOperator("Maverick")
    \/ \E i \in Attached, halfHours \in DeploymentHalfHours,
          mission \in BriefMissions :
           DoStressAccumulation(i, halfHours, mission)

SpecStress == InitStress /\ [][NextStress]_vars

(***************************************************************************)
(* Properties.                                                             *)
(***************************************************************************)
\* the step is a call of the method named, made by the driver
Called(name) == ret'.call = name /\ left' = left - 1 /\ now' = now

Adr(i) == personnel[i].adrenaline
Cort(i) == personnel[i].cortisol
AdrNext(i) == personnel'[i].adrenaline
CortNext(i) == personnel'[i].cortisol

\* C1: right after a Cortisol.metabolize call (made directly or by a
\* debrief) the cortisol concentration is at least the baseline, and the
\* adrenaline concentration is never negative.
FloorAfterMetabolize ==
    /\ ret.call \in {"cortisol.metabolize", "extraction_debrief"}
          => Cort(ret.operator).concentration >= Cort(ret.operator).baseline
    /\ \A i \in Attached : Adr(i).concentration >= 0

\* a metabolize over a positive time has just acted on a model whose
\* baseline had been raised
FloorAfterMetabolizeWitness ==
    /\ ret.call = "cortisol.metabolize"
    /\ ret.thirds > 0
    /\ Cort(ret.operator).chronic_adaptation
    /\ Cort(ret.operator).baseline > NewCortisol.baseline
    /\ Cort(ret.operator).concentration >= Cort(ret.operator).baseline

\* C2 (as claimed): in every reachable state the cortisol concentration is
\* at least the cortisol baseline.
CortisolNeverBelowBaseline ==
    \A i \in Attached : Cort(i).concentration >= Cort(i).baseline

\* C3 (as claimed): a metabolize over a positive time leaves the
\* concentration strictly lower, or, cortisol only, equal and at the floor.
MetabolizeNeverIncreases ==
    [][/\ Called("cortisol.metabolize") /\ ret'.thirds > 0
           => LET i == ret'.operator
              IN  \/ CortNext(i).concentration < Cort(i).concentration
                  \/ /\ CortNext(i).concentration = Cort(i).concentration
                     /\ CortNext(i).concentration = CortNext(i).baseline
       /\ Called("adrenaline.metabolize") /\ ret'.thirds > 0
           => AdrNext(ret'.operator).concentration
                  < Adr(ret'.operator).concentration]_vars

\* C4: no call on an operator lowers its cortisol baseline or clears its
\* chronic_adaptation flag.
RatchetMonotone ==
    [][~Called("attach_operator")
          => \A i \in Attached :
                /\ i \in Attached'
                /\ CortNext(i).baseline >= Cort(i).baseline
                /\ Cort(i).chronic_adaptation => CortNext(i).chronic_adaptation]_vars

\* a debrief has acted on an operator whose baseline had been raised
RatchetMonotoneWitness ==
    /\ ret.call = "extraction_debrief"
    /\ Cort(ret.operator).chronic_adaptation
    /\ Cort(ret.operator).baseline > NewCortisol.baseline

\* C5 (as claimed): metabolize(0) leaves the concentration of the model it
\* is called on unchanged.
MetabolizeZeroUnchanged ==
    [][/\ Called("cortisol.metabolize") /\ ret'.thirds = 0
           => CortNext(ret'.operator).concentration
                  = Cort(ret'.operator).concentration
       /\ Called("adrenaline.metabolize") /\ ret'.thirds = 0
           => AdrNext(ret'.operator).concentration
                  = Adr(ret'.operator).concentration]_vars

\* C7 (as claimed): element_contact leaves every operator in combat
\* posture with an adrenaline concentration above its value before the
\* call, and reports between 0 and N combat-effective operators.
ContactRaisesAdrenaline ==
    [][Called("element_contact")
          => /\ \A i \in Attached :
                   /\ personnel'[i].posture = "combat"
                   /\ AdrNext(i).concentration > Adr(i).concentration
             /\ ret'.combat_effective_personnel \in 0..Cardinality(Attached)]_vars

\* C8: element_casualty adds one to the casualty counter, leaves the status
\* panicked if the counter is then above 2 and focused otherwise, and
\* answers "cover" exactly when the status is panicked.
CasualtyRule ==
    [][Called("element_casualty")
          => LET i == ret'.operator
                 n == personnel[i].element_casualties + 1
             IN  /\ personnel'[i].element_casualties = n
                 /\ personnel'[i].state = IF n > 2 THEN "panicked" ELSE "focused"
                 /\ n = 3 => personnel'[i].state = "panicked"
                 /\ ret'.immediate_response = "cover"
                        <=> personnel'[i].state = "panicked"]_vars

\* the third casualty witnessed by a fresh operator
CasualtyRuleWitness ==
    /\ ret.call = "element_casualty"
    /\ personnel[ret.operator].element_casualties = 3
    /\ personnel[ret.operator].threat_encounters = <<>>
    /\ personnel[ret.operator].state = "panicked"
    /\ ret.immediate_response = "cover"

\* C9 (as claimed): after unit_extraction every operator is in standard
\* posture with no mission, and the recommendation is "immediate_relief"
\* exactly when the mean cortisol concentration exceeds 28.
ExtractionRecommendation ==
    ret.call = "unit_extraction"
       => /\ \A i \in Attached :
                /\ personnel[i].posture = "standard"
                /\ personnel[i].current_mission = NoMission
          /\ ret.command_recommendation = "immediate_relief"
                <=> MeanCortisol(personnel) > ReliefCutoff
          /\ ret.command_recommendation
                \in {"immediate_relief", "operational_standby"}

\* C6 (as claimed): a second run from an identical task force, fed the same
\* random draws at another wall-clock time, returns the same snapshots.
SimulationDeterministic ==
    ret.call = "extended_deployment_simulation" /\ ret.returned
       => ret.value = twin.daily_assessments

\* C10: a run of days days returns days snapshots, adds days to
\* cumulative_deployment_days, and its i-th snapshot reports the counter's
\* value before the run plus i.
SimulationSnapshots ==
    ret.call = "extended_deployment_simulation" /\ ret.returned
       => /\ Len(ret.value) = ret.days
          /\ cumulative_deployment_days = ret.before + ret.days
          /\ \A k \in 1..Len(ret.value) :
                 ret.value[k].deployment_duration = ret.before + k

\* a run of at least two days has returned, after an earlier run
SimulationSnapshotsWitness ==
    /\ ret.call = "extended_deployment_simulation"
    /\ ret.returned
    /\ ret.days >= 2
    /\ ret.before >= 1
    /\ Len(ret.value) >= 2

\* the aggregates of a readiness report of a unit without operators
EmptyAggregates(assessment) ==
    /\ assessment.assigned_personnel = 0
    /\ assessment.mean_adrenaline = 0
    /\ assessment.mean_cortisol = 0
    /\ assessment.effective_personnel = 0

\* C11: on a unit without operators assess_unit_readiness returns mean
\* adrenaline 0, mean cortisol 0 and effective count 0, and so do the report
\* of unit_extraction and every snapshot of a simulation run.
EmptyUnitAggregates ==
    Attached = {}
       => /\ ret.call = "assess_unit_readiness" => EmptyAggregates(ret.value)
          /\ ret.call = "unit_extraction"
                => /\ EmptyAggregates(ret.unit_readiness)
                   /\ personnel = <<>>
          /\ ret.call = "extended_deployment_simulation" /\ ret.returned
                => /\ Len(ret.value) = ret.days
                   /\ \A k \in 1..Len(ret.value) : EmptyAggregates(ret.value[k])

\* a simulation run of at least one day has returned on an empty unit
EmptyUnitAggregatesWitness ==
    /\ Attached = {}
    /\ ret.call = "extended_deployment_simulation"
    /\ ret.returned
    /\ Len(ret.value) >= 1
    /\ EmptyAggregates(ret.value[1])

\* C12 (as claimed): attach_operator with an identifier that is already a
\* key leaves the operator stored under that key as it was.
DuplicateAttachRejected ==
    [][Called("attach_operator") /\ ret'.operator \in Attached
          => personnel'[ret'.operator] = personnel[ret'.operator]]_vars

\* C13 (as claimed): a call given a negative duration or a negative
\* intensity changes nothing of the task force or of its operators.
NegativeInputRejected ==
    [][(\/ Called("operational_briefing") /\ ret'.projected_duration < 0
        \/ Called("threat_engagement") /\ ret'.value.severity_index < 0
        \/ Called("cortisol.metabolize") /\ ret'.thirds < 0
        \/ Called("adrenaline.metabolize") /\ ret'.thirds < 0
        \/ Called("stress_accumulation") /\ ret'.halfHours < 0
        \/ Called("element_contact") /\ ret'.threat_magnitude < 0)
          => UNCHANGED <<personnel, roster, tempo,
                         cumulative_deployment_days>>]_vars

\* the step stores a new operator under identifier i (attach_operator)
Replaced(i) == Called("attach_operator") /\ ret'.operator = i

\* the step is a call of the method named on operator i
CalledOn(name, i) == Called(name) /\ ret'.operator = i

\* C14: an operator's posture is heightened after operational_briefing,
\* combat after threat_engagement, critical after tactical_retrograde,
\* standard after extraction_debrief, and is left as it was by every other
\* call and by the passing of time.
PostureEventDriven ==
    [][\A i \in Attached :
          ~Replaced(i)
             => personnel'[i].posture =
                   IF CalledOn("operational_briefing", i) THEN "heightened"
                   ELSE IF CalledOn("threat_engagement", i) THEN "combat"
                   ELSE IF CalledOn("tactical_retrograde", i) THEN "critical"
                   ELSE IF CalledOn("extraction_debrief", i) THEN "standard"
                   ELSE personnel[i].posture]_vars

\* a casualty has been witnessed by an operator in critical posture
PostureEventDrivenWitness ==
    /\ ret.call = "element_casualty"
    /\ personnel[ret.operator].posture = "critical"
    /\ personnel[ret.operator].element_casualties >= 1

\* C15: threat_engagement leaves the status panicked or focused after an
\* ambush, focused after a sniper, tunnel_vision after an ied, and as it was
\* after direct_fire, indirect_fire and pursuit.
EngagementStatusRule ==
    [][Called("threat_engagement")
          => LET i == ret'.operator
                 threat == ret'.threat
             IN  /\ threat = "ambush"
                       => personnel'[i].state \in {"panicked", "focused"}
                 /\ threat = "sniper" => personnel'[i].state = "focused"
                 /\ threat = "ied" => personnel'[i].state = "tunnel_vision"
                 /\ threat \in {"direct_fire", "indirect_fire", "pursuit"}
                       => personnel'[i].state = personnel[i].state]_vars

\* a panicked operator is still panicked after two engagements of the
\* kinds that leave the status alone
EngagementStatusRuleWitness ==
    /\ ret.call = "threat_engagement"
    /\ ret.threat \in {"direct_fire", "indirect_fire", "pursuit"}
    /\ LET op == personnel[ret.operator]
           n == Len(op.threat_encounters)
       IN  /\ n >= 3
           /\ op.threat_encounters[n - 1]
                 \in {"direct_fire", "indirect_fire", "pursuit"}
           /\ op.threat_encounters[n - 2] = "ambush"
           /\ op.state = "panicked"

\* s is a prefix of t
IsPrefix(s, t) == Len(s) <= Len(t) /\ SubSeq(t, 1, Len(s)) = s

\* C16: the event log of an operator before a step is a prefix of its log
\* after the step; threat_engagement and tactical_retrograde on an operator
\* append exactly one record to its log; a call on one operator and a
\* unit-level aggregation leave the log of every other operator as it was.
EventLogAppendOnly ==
    [][\A i \in Attached :
          ~Replaced(i)
             => /\ i \in Attached'
                /\ IsPrefix(personnel[i].event_log, personnel'[i].event_log)
                /\ CalledOn("threat_engagement", i)
                   \/ CalledOn("tactical_retrograde", i)
                      => Len(personnel'[i].event_log)
                            = Len(personnel[i].event_log) + 1
                /\ left' = left - 1 /\ now' = now
                   /\ "operator" \in DOMAIN ret' /\ ret'.operator # i
                      => personnel'[i].event_log = personnel[i].event_log
                /\ Called("assess_unit_readiness")
                   \/ Called("night_operations_cycle")
                   \/ Called("unit_extraction")
                      => personnel'[i].event_log = personnel[i].event_log]_vars

\* a withdrawal has added a second record to one operator's log while the
\* other operator's log holds one record
EventLogAppendOnlyWitness ==
    /\ ret.call = "tactical_retrograde"
    /\ Len(personnel[ret.operator].event_log) = 2
    /\ \E j \in Attached \ {ret.operator} : Len(personnel[j].event_log) = 1

\* C17: stress_accumulation adds its duration to deployment_days; if the
\* counter is then at most 7 days the baseline and the chronic flag are as
\* before, and if it is above 7 days the baseline is multiplied by 1.15,
\* once, and the flag is set, on every such call.
RatchetEachCall ==
    [][Called("stress_accumulation")
          => LET before == Cort(ret'.operator)
                 after == CortNext(ret'.operator)
                 days == before.deployment_days + ret'.halfHours
             IN  /\ after.deployment_days = days
                 /\ days <= 7 * 48
                       => /\ after.baseline = before.baseline
                          /\ after.chronic_adaptation = before.chronic_adaptation
                 /\ days > 7 * 48
                       => /\ after.baseline = MulMilli(before.baseline, 1150)
                          /\ after.baseline > before.baseline
                          /\ after.chronic_adaptation]_vars

\* a call made past day 7 has raised a baseline that an earlier call had
\* raised already
RatchetEachCallWitness ==
    /\ ret.call = "stress_accumulation"
    /\ Cort(ret.operator).chronic_adaptation
    /\ Cort(ret.operator).deployment_days > 7 * 48 + ret.halfHours
    /\ Cort(ret.operator).baseline = MulMilli(MulMilli(12000, 1150), 1150)

\* the aggregate values of a readiness report
Aggregates(assessment) ==
    <<assessment.mean_adrenaline, assessment.mean_cortisol,
      assessment.effective_personnel, assessment.cohesion_index>>

\* the orders in which the operators of order can be visited
VisitOrders(order) ==
    {o \in [1..Len(order) -> {order[k] : k \in 1..Len(order)}] :
        \A j, k \in 1..Len(order) : j # k => o[j] # o[k]}

\* C18: with the random draws of the call held fixed, the aggregate values
\* of element_contact are the same for every other order of visiting the
\* operators as for the order taken.
BroadcastOrderInsensitive ==
    [][Called("element_contact")
          => \A order \in VisitOrders(roster) \ {roster} :
                LET pers == EngageAll(personnel, order, "ambush",
                                      ret'.threat_magnitude, ret'.draws, now)
                IN  /\ DOMAIN pers = Attached
                    /\ Aggregates(AssessUnitReadiness(pers, "combat",
                            cumulative_deployment_days, now))
                          = Aggregates(ret'.unit_status)]_vars

\* a contact on two operators on different missions and with different
\* cortisol levels, one of which drew panic and the other did not
BroadcastOrderInsensitiveWitness ==
    /\ ret.call = "element_contact"
    /\ Len(roster) = 2
    /\ ret.draws[1].panics # ret.draws[2].panics
    /\ personnel[roster[1]].current_mission # personnel[roster[2]].current_mission
    /\ personnel[roster[1]].cortisol.concentration
          # personnel[roster[2]].cortisol.concentration
    /\ ret.unit_status.effective_personnel = 1

\* the value of performance_modifier, as claimed, for every operator now
ModifierShape ==
    \A i \in Attached :
        LET a == Adr(i)
            elapsed == now - a.peak_timestamp
            m == PerformanceModifier(a, now)
        IN  /\ ~a.peak_response => m = 1000
            /\ a.peak_response /\ elapsed <= 180 => m > 1000
            /\ a.peak_response /\ elapsed > 180
                  => /\ m = Max(400, 1000 - (elapsed - 180) * 8)
                     /\ m >= 400
                     /\ \A seconds \in ClockSteps :
                            PerformanceModifier(a, now + seconds) <= m

\* the surge flag is set by a trigger only and cleared by a metabolize only
FlagDiscipline ==
    \A i \in Attached :
        ~Replaced(i)
           => /\ ~Adr(i).peak_response /\ AdrNext(i).peak_response
                    => CalledOn("threat_engagement", i)
              /\ Adr(i).peak_response /\ ~AdrNext(i).peak_response
                    => \/ CalledOn("adrenaline.metabolize", i)
                       \/ CalledOn("extraction_debrief", i)

\* C19 (as claimed): performance_modifier is 1.0 without a surge, above 1.0
\* within 180 s of the trigger, max(0.4, 1.0 - (elapsed - 180) * 0.008) and
\* non-increasing after; the flag is set only by a trigger and cleared only
\* by an adrenaline metabolize.
PerformanceModifierShape == [](ModifierShape) /\ [][FlagDiscipline]_vars

\* C20: a unit_extraction report that recommends immediate_relief has
\* relief_priority urgent in its unit readiness.
ReliefSignalsConsistent ==
    ret.call = "unit_extraction"
       /\ ret.command_recommendation = "immediate_relief"
          => ret.unit_readiness.relief_priority = "urgent"

\* an extraction has recommended immediate relief
ReliefSignalsConsistentWitness ==
    /\ ret.call = "unit_extraction"
    /\ ret.command_recommendation = "immediate_relief"
    /\ ret.unit_readiness.relief_priority = "urgent"
    /\ ret.unit_readiness.mean_cortisol > ReliefCutoff

\* the step is a contact event drawn inside a simulation run
SimulationContact == sim.pc = "running" /\ left' = left - 1

\* the unit tempo is standard after construction, and standard or combat
TempoRange ==
    /\ tempo \in {"standard", "combat"}
    /\ ret.call = "__init__" => tempo = "standard"

\* element_contact sets the unit tempo to combat and no other step changes
\* it; unit_extraction leaves every operator in standard posture, a contact
\* event of the simulation every operator in combat posture
TempoStep ==
    /\ tempo' = IF Called("element_contact") THEN "combat" ELSE tempo
    /\ Called("unit_extraction")
          => /\ tempo' = tempo
             /\ \A i \in Attached : personnel'[i].posture = "standard"
    /\ SimulationContact
          => /\ tempo' = tempo
             /\ \A i \in Attached : personnel'[i].posture = "combat"

\* C21: the unit tempo is standard until the first element_contact, combat
\* from then on, and changed by no other operation: unit_extraction returns
\* the operators to standard posture and leaves the tempo, and a contact
\* event inside the simulation puts the operators in combat posture and
\* leaves the tempo.
TempoOnlyByContact == [](TempoRange) /\ [][TempoStep]_vars

\* an extraction has returned the operators of a unit in combat tempo to
\* standard posture
TempoOnlyByContactWitness ==
    /\ ret.call = "unit_extraction"
    /\ tempo = "combat"
    /\ Attached # {}
    /\ \A i \in Attached : personnel[i].posture = "standard"

====
